---- MODULE Spec2Model ----
(***************************************************************************)
(* Shortest-Job-First scheduler of src/sjf.py: the metric calculation      *)
(* (SJFScheduler.calculate_metrics), the result averaging                  *)
(* (OutputFormatter.print_results) and the threaded execution simulation   *)
(* (SJFScheduler.run_threaded_simulation / simulate_execution).            *)
(*                                                                         *)
(* More specifications share the actions:                                  *)
(*   Spec      main() from line 269 on: the scheduler is constructed on a  *)
(*             list input_processes returned (n >= 1, bursts > 0, pids     *)
(*             1..n), then calculate_metrics, print_results, the y/n       *)
(*             question and the simulation with its worker threads.        *)
(*   CalcSpec  the calculator and the formatter called directly on any     *)
(*             list a caller can construct (empty, bursts <= 0 included).  *)
(*   FairSpec  main() as in Spec, with weak fairness of every thread.      *)
(*   MainSpec  main() from line 259 on: the prompts of input_processes,    *)
(*             then as Spec, with KeyboardInterrupt and end of input.      *)
(*   RerunSpec a caller running run_threaded_simulation on one scheduler   *)
(*             several times.                                              *)
(***************************************************************************)
EXTENDS Integers, Sequences, FiniteSets, TLC

\* ------------------------------------------------------------------ bounds
MaxJobs == 3          \* jobs (= worker threads) in a run of main()
MaxFairJobs == 2      \* jobs in a run checked under fairness
MaxCalcJobs == 3      \* jobs in a list handed directly to the calculator
MaxBurst == 2         \* largest burst time drawn
MaxNonPositive == 1   \* direct lists draw bursts from -MaxNonPositive..MaxBurst
MaxCalls == 2         \* calls of calculate_metrics by a direct caller
MaxRuns == 2          \* calls of run_threaded_simulation by a direct caller
MaxRerunJobs == 2     \* jobs of a scheduler whose simulation is run repeatedly
MaxMainJobs == 2      \* jobs the user asks for in a run of main() from its start
MaxInputLen == 2      \* characters in a line the user types

VARIABLES
    input0,               \* the list as handed to SJFScheduler.__init__ (history)
    processes,            \* self.processes
    lock,                 \* self.lock: 0 = free, w = held by worker w
    completed_processes,  \* self.completed_processes (jobs named by pid)
    output,               \* console lines of the simulation run under way
    results,              \* what print_results computed (averages, count)
    exc,                  \* the exception propagating, "none" if none
    mpc,                  \* position of the calling thread
    wpc,                  \* position of each worker thread
    nstarted,             \* threads started by the loop of line 188
    njoined,              \* threads joined by the loop of line 198
    typed,                \* validate_positive_int: the line input() returned last
    nprocs,               \* input_processes: n, the number of processes asked for
    report,               \* what main's except clauses printed (lines 283, 285)
    ncalls,               \* calls of calculate_metrics so far (history)
    nruns                 \* calls of run_threaded_simulation so far (history)

vars == <<input0, processes, lock, completed_processes, output, results, exc,
          mpc, wpc, nstarted, njoined, typed, nprocs, report, ncalls, nruns>>

Workers == 1..MaxJobs

\* ------------------------------------------------------------- Process
\* @dataclass Process: pid, burst_time and the derived fields defaulting to 0.
Process(pid, burst) ==
    [pid |-> pid, burst_time |-> burst, waiting_time |-> 0,
     turnaround_time |-> 0, arrival_time |-> 0, completion_time |-> 0]

\* Lists with pids 1..n in list order and bursts drawn from B.
JobLists(lens, B) ==
    UNION {{[i \in 1..n |-> Process(i, f[i])] : f \in [1..n -> B]} : n \in lens}

\* What input_processes returns: n >= 1 jobs, every burst > 0.
ValidJobLists == JobLists(1..MaxJobs, 1..MaxBurst)

\* The lists of the runs checked for termination.
FairJobLists == JobLists(1..MaxFairJobs, 1..MaxBurst)

\* The lists of the schedulers whose simulation is run repeatedly.
RerunJobLists == JobLists(1..MaxRerunJobs, 1..MaxBurst)

\* What a direct caller may construct.
AnyJobLists == JobLists(0..MaxCalcJobs, (0 - MaxNonPositive)..MaxBurst)

\* The list with these burst times, pids 1..n in list order.
ListOf(bursts) == [i \in 1..Len(bursts) |-> Process(i, bursts[i])]

\* Two more lists a direct caller constructs: four jobs of bursts 6, 8, 7, 3
\* and the single job of burst 5.
FourJobs == ListOf(<<6, 8, 7, 3>>)

SingleJob == ListOf(<<5>>)

ExampleJobLists == {FourJobs, SingleJob}

\* ------------------------------------------------- calculate_metrics
\* key=lambda p: p.burst_time with list.sort, which is stable: an element moves
\* in front of another only when its key is strictly smaller.
GoesBeforeUnstable(p, q) == p.burst_time <= q.burst_time

GoesBefore(p, q) == p.burst_time < q.burst_time

RECURSIVE InsertSorted(_, _)
InsertSorted(s, p) ==
    IF s = <<>> THEN <<p>>
    ELSE IF GoesBefore(p, s[Len(s)])
         THEN Append(InsertSorted(SubSeq(s, 1, Len(s) - 1), p), s[Len(s)])
         ELSE Append(s, p)

\* self.processes.sort(key=...): the list's elements taken in list order, each
\* placed behind every element already placed whose key is not larger.
RECURSIVE SortByBurst(_)
SortByBurst(s) ==
    IF s = <<>> THEN <<>>
    ELSE InsertSorted(SortByBurst(SubSeq(s, 1, Len(s) - 1)), s[Len(s)])

\* line 135: process.waiting_time = current_time
WaitingOf(current_time) == current_time

\* line 138: process.turnaround_time = process.waiting_time + process.burst_time
TurnaroundOfBurstOnly(waiting_time, burst_time) == burst_time

TurnaroundOf(waiting_time, burst_time) == waiting_time + burst_time

\* line 141: process.completion_time = current_time + process.burst_time
CompletionOfBurstOnly(current_time, burst_time) == burst_time

CompletionOf(current_time, burst_time) == current_time + burst_time

\* line 144: current_time = process.completion_time
NextTimeBurstOnly(p) == p.burst_time

NextTime(p) == p.completion_time

\* MetricsLoop recording the start of each job as its arrival_time.
RECURSIVE MetricsLoopStampingArrival(_, _, _)
MetricsLoopStampingArrival(s, k, current_time) ==
    IF k > Len(s) THEN s
    ELSE LET w == WaitingOf(current_time)
             p == [s[k] EXCEPT
                     !.waiting_time = w,
                     !.arrival_time = current_time,
                     !.turnaround_time = TurnaroundOf(w, s[k].burst_time),
                     !.completion_time = CompletionOf(current_time, s[k].burst_time)]
         IN MetricsLoopStampingArrival([s EXCEPT ![k] = p], k + 1, NextTime(p))

\* lines 131-144: the loop over the sorted list, from position k on.
RECURSIVE MetricsLoop(_, _, _)
MetricsLoop(s, k, current_time) ==
    IF k > Len(s) THEN s
    ELSE LET w == WaitingOf(current_time)
             p == [s[k] EXCEPT
                     !.waiting_time = w,
                     !.turnaround_time = TurnaroundOf(w, s[k].burst_time),
                     !.completion_time = CompletionOf(current_time, s[k].burst_time)]
         IN MetricsLoop([s EXCEPT ![k] = p], k + 1, NextTime(p))

\* Metrics with current_time carried over from the list's last completion.
MetricsCarryingTime(s) ==
    MetricsLoop(SortByBurst(s), 1,
                IF s = <<>> THEN 0 ELSE s[Len(s)].completion_time)

\* calculate_metrics as a function of the list: sort in place, then annotate.
Metrics(s) == MetricsLoop(SortByBurst(s), 1, 0)

\* ----------------------------------------------------- print_results
RECURSIVE SumField(_, _)
SumField(s, fld) ==
    IF s = <<>> THEN 0 ELSE s[1][fld] + SumField(Tail(s), fld)

\* f"{total / n:.2f}" in hundredths: the quotient rounded to two decimals, a
\* tie going to the even neighbour (n > 0).
Hundredths(total, n) ==
    LET q == (100 * total) \div n
        r == (100 * total) % n
    IN IF 2 * r < n THEN q
       ELSE IF 2 * r > n THEN q + 1
       ELSE IF q % 2 = 0 THEN q ELSE q + 1

NoResults == [n |-> 0 - 1, avg_wait |-> 0, avg_turnaround |-> 0]

\* ------------------------------------------------------------- states
\* SJFScheduler.__init__ on the list handed over: the list itself (no copy), a
\* free lock, nothing completed; no thread exists yet.
Constructed(lists) ==
    /\ input0 \in lists
    /\ processes = input0
    /\ lock = 0
    /\ completed_processes = <<>>
    /\ output = <<>>
    /\ results = NoResults
    /\ exc = "none"
    /\ mpc = "calc"
    /\ wpc = [w \in Workers |-> "new"]
    /\ nstarted = 0
    /\ njoined = 0
    /\ typed = <<>>
    /\ nprocs = Len(input0)
    /\ report = "none"
    /\ ncalls = 0
    /\ nruns = 0

Init == Constructed(ValidJobLists)

CalcInit == Constructed(AnyJobLists \cup ExampleJobLists)

FairInit == Constructed(FairJobLists)

\* scheduler.calculate_metrics() (line 270): no check of the list, no raise.
CalculateMetrics ==
    /\ mpc = "calc"
    /\ processes' = Metrics(processes)
    /\ mpc' = "print"
    /\ ncalls' = ncalls + 1
    /\ UNCHANGED <<input0, lock, completed_processes, output, results, exc,
                   wpc, nstarted, njoined, nprocs, report, nruns, typed>>

\* OutputFormatter.print_results(scheduled_processes) (line 273): the totals,
\* then total / n, which raises ZeroDivisionError for an empty list.
PrintResults ==
    /\ mpc = "print"
    /\ LET n == Len(processes)
           total_wait == SumField(processes, "waiting_time")
           total_turnaround == SumField(processes, "turnaround_time")
       IN IF n = 0
          THEN /\ exc' = "ZeroDivisionError"
               /\ mpc' = "raised"
               /\ UNCHANGED results
          ELSE /\ results' = [n |-> n,
                              avg_wait |-> Hundredths(total_wait, n),
                              avg_turnaround |-> Hundredths(total_turnaround, n)]
               /\ mpc' = "ask"
               /\ UNCHANGED exc
    /\ UNCHANGED <<input0, processes, lock, completed_processes, output,
                   wpc, nstarted, njoined,
                   nprocs, report, ncalls, nruns, typed>>

\* A direct caller calls calculate_metrics again on the scheduler, whose list
\* the earlier call sorted and annotated in place.
CalculateAgain ==
    /\ mpc = "print"
    /\ ncalls < MaxCalls
    /\ processes' = Metrics(processes)
    /\ ncalls' = ncalls + 1
    /\ UNCHANGED <<input0, lock, completed_processes, output, results, exc,
                   mpc, wpc, nstarted, njoined, nprocs, report, nruns, typed>>

CalcNext == CalculateMetrics \/ CalculateAgain \/ PrintResults

CalcSpec == CalcInit /\ [][CalcNext]_vars

\* ------------------------------------------------------------ main
\* line 276: the y/n question. Anything but 'y' skips the simulation.
AskUser ==
    /\ mpc = "ask"
    /\ \/ mpc' = "start" /\ nruns' = nruns + 1
       \/ mpc' = "exit" /\ nruns' = nruns
    /\ UNCHANGED <<input0, processes, lock, completed_processes, output,
                   results, exc, wpc, nstarted, njoined,
                   nprocs, report, ncalls, typed>>

\* --------------------------------------------- run_threaded_simulation
\* StartThread as a start-then-join loop: a thread is started only once the
\* one before it has finished.
StartThreadAfterPrevious ==
    /\ mpc = "start"
    /\ nstarted < Len(processes)
    /\ nstarted > 0 => wpc[nstarted] = "done"
    /\ wpc' = [wpc EXCEPT ![nstarted + 1] = "l160"]
    /\ nstarted' = nstarted + 1
    /\ mpc' = IF nstarted + 1 = Len(processes) THEN "join" ELSE "start"
    /\ UNCHANGED <<input0, processes, lock, completed_processes, output,
                   results, exc, njoined, nprocs, report, ncalls, nruns, typed>>

\* The loop of lines 188-195 starts the thread of the next job: worker w runs
\* simulate_execution on processes[w]. After the last start the loop of line
\* 198 begins.
StartThread ==
    /\ mpc = "start"
    /\ nstarted < Len(processes)
    /\ wpc' = [wpc EXCEPT ![nstarted + 1] = "l160"]
    /\ nstarted' = nstarted + 1
    /\ mpc' = IF nstarted + 1 = Len(processes) THEN "join" ELSE "start"
    /\ UNCHANGED <<input0, processes, lock, completed_processes, output,
                   results, exc, njoined,
                   nprocs, report, ncalls, nruns, typed>>

\* thread.start() (line 195) raises RuntimeError when the system cannot start a
\* new thread. No try encloses the loop: the exception leaves
\* run_threaded_simulation at once, with no join.
StartFails ==
    /\ mpc = "start"
    /\ nstarted < Len(processes)
    /\ exc' = "RuntimeError"
    /\ mpc' = "raised"
    /\ UNCHANGED <<input0, processes, lock, completed_processes, output,
                   results, wpc, nstarted, njoined,
                   nprocs, report, ncalls, nruns, typed>>

\* thread.join() returns once the thread has finished.
JoinReadyAlways(w) == TRUE

JoinReady(w) == wpc[w] = "done"

\* The loop of lines 198-199 joins the threads in the order they were started;
\* after the last join the function prints its banner and returns (line 203).
JoinThread ==
    /\ mpc = "join"
    /\ njoined < Len(processes)
    /\ JoinReady(njoined + 1)
    /\ njoined' = njoined + 1
    /\ mpc' = IF njoined + 1 = Len(processes) THEN "returned" ELSE "join"
    /\ UNCHANGED <<input0, processes, lock, completed_processes, output,
                   results, exc, wpc, nstarted,
                   nprocs, report, ncalls, nruns, typed>>

\* lines 279-280, then main returns.
MainReturns ==
    /\ mpc = "returned"
    /\ mpc' = "exit"
    /\ UNCHANGED <<input0, processes, lock, completed_processes, output,
                   results, exc, wpc, nstarted, njoined,
                   nprocs, report, ncalls, nruns, typed>>

\* lines 284-286: except Exception prints the error and re-raises it.
MainReraises ==
    /\ mpc = "raised"
    /\ mpc' = "crashed"
    /\ report' = "error"
    /\ UNCHANGED <<input0, processes, lock, completed_processes, output,
                   results, exc, wpc, nstarted, njoined,
                   nprocs, ncalls, nruns, typed>>

\* ------------------------------------------------- simulate_execution
\* threading.Lock.acquire blocks until the lock is free.
LockFree == lock = 0

\* line 160: with self.lock (enter)
AcquireForStart(w) ==
    /\ wpc[w] = "l160"
    /\ LockFree
    /\ lock' = w
    /\ wpc' = [wpc EXCEPT ![w] = "l161"]
    /\ UNCHANGED <<input0, processes, completed_processes, output, results,
                   exc, mpc, nstarted, njoined,
                   nprocs, report, ncalls, nruns, typed>>

\* PrintExecuting with the sleep moved inside the with block.
PrintExecutingKeepingLock(w) ==
    /\ wpc[w] = "l161"
    /\ output' = Append(output, <<"executing", processes[w].pid>>)
    /\ wpc' = [wpc EXCEPT ![w] = "l166"]
    /\ UNCHANGED <<input0, processes, lock, completed_processes, results, exc,
                   mpc, nstarted, njoined,
                   nprocs, report, ncalls, nruns, typed>>

\* lines 161-163: the "Executing" line, then the with block is left and the
\* thread enters time.sleep (line 166).
PrintExecuting(w) ==
    /\ wpc[w] = "l161"
    /\ output' = Append(output, <<"executing", processes[w].pid>>)
    /\ lock' = 0
    /\ wpc' = [wpc EXCEPT ![w] = "l166"]
    /\ UNCHANGED <<input0, processes, completed_processes, results, exc, mpc,
                   nstarted, njoined,
                   nprocs, report, ncalls, nruns, typed>>

\* line 166: time.sleep returns, after a time the scheduler decides.
Wake(w) ==
    /\ wpc[w] = "l166"
    /\ wpc' = [wpc EXCEPT ![w] = "l168"]
    /\ UNCHANGED <<input0, processes, lock, completed_processes, output,
                   results, exc, mpc, nstarted, njoined,
                   nprocs, report, ncalls, nruns, typed>>

\* line 168: with self.lock (enter)
AcquireForAppend(w) ==
    /\ wpc[w] = "l168"
    /\ LockFree
    /\ lock' = w
    /\ wpc' = [wpc EXCEPT ![w] = "l169"]
    /\ UNCHANGED <<input0, processes, completed_processes, output, results,
                   exc, mpc, nstarted, njoined,
                   nprocs, report, ncalls, nruns, typed>>

\* AppendCompleted with the with block closed before the print.
AppendCompletedReleasing(w) ==
    /\ wpc[w] = "l169"
    /\ completed_processes' = Append(completed_processes, processes[w].pid)
    /\ lock' = 0
    /\ wpc' = [wpc EXCEPT ![w] = "l170"]
    /\ UNCHANGED <<input0, processes, output, results, exc, mpc, nstarted,
                   njoined,
                   nprocs, report, ncalls, nruns, typed>>

\* AppendCompleted stamping the job with its place in the completion order.
AppendCompletedStamping(w) ==
    /\ wpc[w] = "l169"
    /\ completed_processes' = Append(completed_processes, processes[w].pid)
    /\ processes' = [processes EXCEPT
                       ![w].completion_time = Len(completed_processes) + 1]
    /\ wpc' = [wpc EXCEPT ![w] = "l170"]
    /\ UNCHANGED <<input0, lock, output, results, exc, mpc, nstarted, njoined,
                   nprocs, report, ncalls, nruns, typed>>

\* AppendCompleted keeping the completed list in order of burst time.
AppendCompletedByBurst(w) ==
    /\ wpc[w] = "l169"
    /\ completed_processes' =
          LET pids == {completed_processes[i] : i \in 1..Len(completed_processes)}
                      \cup {processes[w].pid}
              byBurst == SortByBurst(SelectSeq(processes,
                                               LAMBDA p : p.pid \in pids))
          IN [i \in 1..Len(byBurst) |-> byBurst[i].pid]
    /\ wpc' = [wpc EXCEPT ![w] = "l170"]
    /\ UNCHANGED <<input0, processes, lock, output, results, exc, mpc,
                   nstarted, njoined, nprocs, report, ncalls, nruns, typed>>

\* line 169: self.completed_processes.append(process), the lock still held.
AppendCompleted(w) ==
    /\ wpc[w] = "l169"
    /\ completed_processes' = Append(completed_processes, processes[w].pid)
    /\ wpc' = [wpc EXCEPT ![w] = "l170"]
    /\ UNCHANGED <<input0, processes, lock, output, results, exc, mpc,
                   nstarted, njoined,
                   nprocs, report, ncalls, nruns, typed>>

\* lines 170-171: the "completed" line, then the with block is left and the
\* thread ends.
PrintCompleted(w) ==
    /\ wpc[w] = "l170"
    /\ output' = Append(output, <<"completed", processes[w].pid>>)
    /\ lock' = 0
    /\ wpc' = [wpc EXCEPT ![w] = "done"]
    /\ UNCHANGED <<input0, processes, completed_processes, results, exc, mpc,
                   nstarted, njoined,
                   nprocs, report, ncalls, nruns, typed>>

WorkerStep(w) ==
    \/ AcquireForStart(w)
    \/ PrintExecuting(w)
    \/ Wake(w)
    \/ AcquireForAppend(w)
    \/ AppendCompleted(w)
    \/ PrintCompleted(w)

MainStep ==
    \/ CalculateMetrics
    \/ PrintResults
    \/ AskUser
    \/ StartThread
    \/ StartFails
    \/ JoinThread
    \/ MainReturns
    \/ MainReraises

Next == MainStep \/ \E w \in Workers : WorkerStep(w)

Spec == Init /\ [][Next]_vars

\* Every thread that can take a step eventually takes one.
FairSpec ==
    /\ FairInit
    /\ [][Next]_vars
    /\ WF_vars(MainStep)
    /\ \A w \in Workers : WF_vars(WorkerStep(w))

\* ------------------------------------------------ ProcessInputHandler
\* The characters a line is typed from: digits, blank, signs, and "x" for
\* any character that is none of these.
Digits == {"0", "1", "2", "3"}

Chars == Digits \cup {" ", "-", "+", "x"}

DigitValue == ("0" :> 0) @@ ("1" :> 1) @@ ("2" :> 2) @@ ("3" :> 3)

AllLines == UNION {[1..k -> Chars] : k \in 0..MaxInputLen}

RECURSIVE LStrip(_)
LStrip(s) == IF s # <<>> /\ s[1] = " " THEN LStrip(Tail(s)) ELSE s

RECURSIVE RStrip(_)
RStrip(s) ==
    IF s # <<>> /\ s[Len(s)] = " " THEN RStrip(SubSeq(s, 1, Len(s) - 1)) ELSE s

RECURSIVE DecimalValue(_)
DecimalValue(d) ==
    IF d = <<>> THEN 0
    ELSE 10 * DecimalValue(SubSeq(d, 1, Len(d) - 1)) + DigitValue[d[Len(d)]]

\* int(line) (line 62): blanks around the number are dropped, one sign may
\* lead, then one or more digits and nothing else; anything else is a
\* ValueError (ok = FALSE).
ParseInt(s) ==
    LET t == RStrip(LStrip(s))
        signed == t # <<>> /\ t[1] \in {"+", "-"}
        d == IF signed THEN Tail(t) ELSE t
        ok == d # <<>> /\ \A i \in 1..Len(d) : d[i] \in Digits
    IN [ok |-> ok,
        value |-> IF ~ok THEN 0
                  ELSE IF signed /\ t[1] = "-" THEN 0 - DecimalValue(d)
                  ELSE DecimalValue(d)]

\* The lines typed at a prompt; numbers above cap are left out of the runs.
Lines(cap) == {s \in AllLines : ParseInt(s).ok => ParseInt(s).value <= cap}

\* line 63: a value <= 0 is refused.
AcceptedFromZero(value) == value >= 0

Accepted(value) == value > 0

\* validate_positive_int on the line s: the value returned, or "again" when the
\* loop prints the error and prompts again (lines 63-65, 67-68).
Validate(s) ==
    LET r == ParseInt(s)
    IN IF r.ok /\ Accepted(r.value) THEN [again |-> FALSE, value |-> r.value]
       ELSE [again |-> TRUE, value |-> 0]

\* main() before any input (line 259): no list, no scheduler yet.
MainInit ==
    /\ input0 = <<>>
    /\ processes = <<>>
    /\ lock = 0
    /\ completed_processes = <<>>
    /\ output = <<>>
    /\ results = NoResults
    /\ exc = "none"
    /\ mpc = "input_n"
    /\ wpc = [w \in Workers |-> "new"]
    /\ nstarted = 0
    /\ njoined = 0
    /\ typed = <<>>
    /\ nprocs = 0
    /\ report = "none"
    /\ ncalls = 0
    /\ nruns = 0

\* lines 77-81: one line typed at "Enter number of processes". A refused line
\* leaves the prompt open; an accepted one sets n, and the loop of line 87
\* begins (with no iteration to make, input_processes returns the empty list
\* and main constructs the scheduler on it).
ReadCount ==
    /\ mpc = "input_n"
    /\ \E s \in Lines(MaxMainJobs) :
          LET v == Validate(s)
          IN IF v.again
             THEN /\ typed' = s
                  /\ UNCHANGED <<nprocs, mpc>>
             ELSE /\ nprocs' = v.value
                  /\ typed' = IF v.value >= 1 THEN s ELSE <<>>
                  /\ mpc' = IF v.value >= 1 THEN "input_burst" ELSE "calc"
    /\ UNCHANGED <<input0, processes, lock, completed_processes, output,
                   results, exc, wpc, nstarted, njoined, report, ncalls,
                   nruns>>

\* lines 87-94: one line typed at "Process i - Burst time". An accepted value
\* appends Process(pid=i, burst_time=burst); after the n-th the list is
\* returned and main constructs the scheduler on it (line 269).
ReadBurst ==
    /\ mpc = "input_burst"
    /\ \E s \in Lines(MaxBurst) :
          LET v == Validate(s)
              i == Len(processes) + 1
          IN IF v.again
             THEN /\ typed' = s
                  /\ UNCHANGED <<processes, input0, mpc>>
             ELSE /\ processes' = Append(processes, Process(i, v.value))
                  /\ IF i = nprocs
                     THEN /\ input0' = processes'
                          /\ mpc' = "calc"
                          /\ typed' = <<>>
                     ELSE /\ typed' = s
                          /\ UNCHANGED <<input0, mpc>>
    /\ UNCHANGED <<lock, completed_processes, output, results, exc, wpc,
                   nstarted, njoined, nprocs, report, ncalls, nruns>>

\* input() (lines 62, 276) raises EOFError at the end of the input: no ValueError,
\* so it leaves validate_positive_int and reaches main's except Exception.
EndOfInput ==
    /\ mpc \in {"input_n", "input_burst", "ask"}
    /\ exc' = "EOFError"
    /\ mpc' = "raised"
    /\ typed' = <<>>
    /\ UNCHANGED <<input0, processes, lock, completed_processes, output,
                   results, wpc, nstarted, njoined, nprocs, report, ncalls,
                   nruns>>

\* Ctrl-C: KeyboardInterrupt is raised in the main thread, wherever it is
\* inside the try of lines 259-280, the blocking input() and thread.join()
\* included. The worker threads are not interrupted.
Interrupt ==
    /\ mpc \in {"input_n", "input_burst", "calc", "print", "ask", "start",
                "join", "returned"}
    /\ exc' = "KeyboardInterrupt"
    /\ mpc' = "interrupted"
    /\ typed' = <<>>
    /\ UNCHANGED <<input0, processes, lock, completed_processes, output,
                   results, wpc, nstarted, njoined, nprocs, report, ncalls,
                   nruns>>

\* HandleInterrupt re-raising after the message, as the other except does.
HandleInterruptReraising ==
    /\ mpc = "interrupted"
    /\ report' = "interrupted"
    /\ mpc' = "crashed"
    /\ UNCHANGED <<input0, processes, lock, completed_processes, output,
                   results, exc, wpc, nstarted, njoined, typed, nprocs, ncalls,
                   nruns>>

\* lines 282-283: except KeyboardInterrupt prints "Program interrupted by
\* user. Exiting gracefully..." and main returns.
HandleInterrupt ==
    /\ mpc = "interrupted"
    /\ report' = "interrupted"
    /\ exc' = "none"
    /\ mpc' = "exit"
    /\ UNCHANGED <<input0, processes, lock, completed_processes, output,
                   results, wpc, nstarted, njoined, typed, nprocs, ncalls,
                   nruns>>

MainNext ==
    \/ ReadCount
    \/ ReadBurst
    \/ EndOfInput
    \/ Interrupt
    \/ HandleInterrupt
    \/ MainStep
    \/ \E w \in Workers : WorkerStep(w)

MainSpec == MainInit /\ [][MainNext]_vars

\* ------------------------------------ run_threaded_simulation, repeated
\* A caller constructs the scheduler and calls run_threaded_simulation.
RerunInit ==
    /\ input0 \in RerunJobLists
    /\ processes = input0
    /\ lock = 0
    /\ completed_processes = <<>>
    /\ output = <<>>
    /\ results = NoResults
    /\ exc = "none"
    /\ mpc = "start"
    /\ wpc = [w \in Workers |-> "new"]
    /\ nstarted = 0
    /\ njoined = 0
    /\ typed = <<>>
    /\ nprocs = Len(input0)
    /\ report = "none"
    /\ ncalls = 0
    /\ nruns = 1

\* RunAgain with the completed list emptied at the start of the run.
RunAgainResetting ==
    /\ mpc = "returned"
    /\ nruns < MaxRuns
    /\ nruns' = nruns + 1
    /\ mpc' = "start"
    /\ wpc' = [w \in Workers |-> "new"]
    /\ nstarted' = 0
    /\ njoined' = 0
    /\ output' = <<>>
    /\ completed_processes' = <<>>
    /\ UNCHANGED <<input0, processes, lock, results, exc, nprocs, report,
                   ncalls, typed>>

\* The caller calls run_threaded_simulation again on the same scheduler: a
\* new, empty threads list (line 181) and the banner (lines 183-185), after
\* which the console lines of the new run are collected. Nothing of self is
\* assigned.
RunAgain ==
    /\ mpc = "returned"
    /\ nruns < MaxRuns
    /\ nruns' = nruns + 1
    /\ mpc' = "start"
    /\ wpc' = [w \in Workers |-> "new"]
    /\ nstarted' = 0
    /\ njoined' = 0
    /\ output' = <<>>
    /\ UNCHANGED <<input0, processes, lock, completed_processes, results, exc,
                   nprocs, report, ncalls, typed>>

RerunNext ==
    \/ StartThread
    \/ StartFails
    \/ JoinThread
    \/ RunAgain
    \/ \E w \in Workers : WorkerStep(w)

RerunSpec == RerunInit /\ [][RerunNext]_vars

\* ============================================================ properties
Jobs == 1..Len(processes)

CalcDone == mpc # "calc"

PositiveBursts(s) == \A i \in 1..Len(s) : s[i].burst_time > 0

\* How often pid occurs in a sequence of pids.
Count(seq, pid) == Cardinality({k \in 1..Len(seq) : seq[k] = pid})

\* Place of the job with this pid in the list handed to the scheduler.
InputPos(pid) == CHOOSE i \in 1..Len(input0) : input0[i].pid = pid

RECURSIVE SumBursts(_, _)
SumBursts(s, k) == IF k = 0 THEN 0 ELSE s[k].burst_time + SumBursts(s, k - 1)

\* C1: when run_threaded_simulation returns on a fresh scheduler with N >= 1
\* jobs, completed_processes has exactly N entries and holds every job exactly
\* once, whatever the interleaving of the workers.
C1_ExactlyOnce ==
    mpc = "returned" =>
        /\ Len(completed_processes) = Len(processes)
        /\ \A i \in Jobs : Count(completed_processes, processes[i].pid) = 1

C1_Witness ==
    /\ mpc = "returned"
    /\ Len(processes) >= 2
    /\ completed_processes # [i \in Jobs |-> processes[i].pid]

\* C2: at most one worker is inside a lock-guarded section, and it holds the
\* lock there; while a worker is between its append and its completion line no
\* other append or output happens and the next output is its own completion
\* line; no worker holds the lock while it sleeps.
InLockSection(w) == wpc[w] \in {"l161", "l169", "l170"}

MutualExclusion ==
    \A w1, w2 \in Workers : InLockSection(w1) /\ InLockSection(w2) => w1 = w2

HoldsLockInSection == \A w \in Workers : InLockSection(w) => lock = w

NoLockWhileSleeping == \A w \in Workers : wpc[w] = "l166" => lock # w

AppendNotifyAtomic ==
    \A w \in Workers :
        wpc[w] = "l170" =>
            /\ completed_processes' = completed_processes
            /\ \/ output' = output
               \/ /\ output' = Append(output, <<"completed", processes[w].pid>>)
                  /\ wpc'[w] = "done"

C2_LockDiscipline ==
    /\ [](MutualExclusion /\ HoldsLockInSection /\ NoLockWhileSleeping)
    /\ [][AppendNotifyAtomic]_vars

C2_Witness ==
    \E w1, w2, w3 \in Workers :
        /\ wpc[w1] = "l170"
        /\ wpc[w2] = "l168"
        /\ wpc[w3] = "l166"

\* C3: for a non-empty list with positive bursts calculate_metrics returns the
\* same jobs in order of non-decreasing burst_time, jobs of equal burst_time
\* in the order they had in the input.
C3_StableSort ==
    (CalcDone /\ Len(input0) >= 1 /\ PositiveBursts(input0)) =>
        /\ Len(processes) = Len(input0)
        /\ \A i \in 1..Len(input0) :
              Cardinality({k \in Jobs : processes[k].pid = input0[i].pid}) = 1
        /\ \A i, j \in Jobs :
              i < j =>
                 /\ processes[i].burst_time <= processes[j].burst_time
                 /\ processes[i].burst_time = processes[j].burst_time
                       => InputPos(processes[i].pid) < InputPos(processes[j].pid)

C3_Witness ==
    /\ mpc = "print"
    /\ PositiveBursts(input0)
    /\ \E i, j \in 1..Len(input0) :
          i < j /\ input0[i].burst_time = input0[j].burst_time
    /\ \E i, j \in 1..Len(input0) :
          i < j /\ input0[i].burst_time > input0[j].burst_time

\* C4: after calculate_metrics every job has turnaround_time = waiting_time +
\* burst_time and completion_time = waiting_time + burst_time.
C4_TurnaroundCompletion ==
    CalcDone =>
        \A i \in Jobs :
            /\ processes[i].turnaround_time
                  = processes[i].waiting_time + processes[i].burst_time
            /\ processes[i].completion_time
                  = processes[i].waiting_time + processes[i].burst_time
            /\ processes[i].completion_time = processes[i].turnaround_time

C4_Witness ==
    /\ mpc = "print"
    /\ \E i \in Jobs :
          processes[i].waiting_time > 0 /\ processes[i].burst_time > 0

\* C5: after calculate_metrics the waiting_time of the job at position k is the
\* sum of the burst_time of the jobs before it, which is the completion_time of
\* the job at position k - 1; the first job has the smallest burst and waits 0.
C5_WaitingIsPrefixSum ==
    CalcDone =>
        /\ \A k \in Jobs :
              /\ processes[k].waiting_time = SumBursts(processes, k - 1)
              /\ k > 1 => processes[k].waiting_time
                             = processes[k - 1].completion_time
        /\ Len(processes) >= 1 =>
              /\ processes[1].waiting_time = 0
              /\ \A k \in Jobs :
                    processes[1].burst_time <= processes[k].burst_time

C5_Witness ==
    /\ mpc = "print"
    /\ Len(processes) >= 3
    /\ PositiveBursts(processes)
    /\ processes[3].waiting_time > processes[2].burst_time

\* C6: calculate_metrics called on a list holding a burst_time <= 0 fails with
\* InvalidInput and computes nothing.
C6_RejectsNonPositive ==
    (CalcDone /\ ~PositiveBursts(input0)) =>
        /\ exc = "InvalidInput"
        /\ processes = input0

\* C7: the calculator and the formatter run on zero jobs surface EmptyJobSet to
\* the caller; nothing is averaged and nothing else is raised.
C7_EmptyJobSetSurfaced ==
    (Len(input0) = 0 /\ mpc \notin {"calc", "print"}) =>
        /\ exc = "EmptyJobSet"
        /\ results = NoResults

\* C8: when starting a thread fails, every worker already started has finished
\* (was joined) by the time the error leaves run_threaded_simulation.
C8_JoinedBeforeError ==
    (mpc = "raised" /\ exc = "RuntimeError") =>
        \A w \in 1..nstarted : wpc[w] = "done"

\* C9: with every thread scheduled fairly, a started worker eventually
\* finishes, run_threaded_simulation eventually ends, a caller waiting in the
\* join loop eventually returns, and it has returned only when every worker has
\* finished.
AllWorkersDone == \A w \in Jobs : wpc[w] = "done"

C9_Terminates ==
    /\ [](mpc = "returned" => AllWorkersDone)
    /\ \A w \in Workers : (wpc[w] = "l160") ~> (wpc[w] = "done")
    /\ (mpc = "start") ~> (mpc \in {"returned", "raised"})
    /\ (mpc = "join") ~> (mpc = "returned" /\ AllWorkersDone)

C9_Witness ==
    /\ mpc = "join"
    /\ \E w1, w2 \in Workers :
          /\ wpc[w1] = "l169"
          /\ wpc[w2] = "l168"
          /\ w2 < w1

\* C10: no step of the simulation, of the caller or of a worker, changes the
\* job list: every field of every job and the order of self.processes stay as
\* calculate_metrics left them.
InSimulation == mpc \in {"start", "join", "returned", "raised"}

C10_JobsUntouched == [][InSimulation => processes' = processes]_vars

C10_Witness ==
    /\ mpc = "returned"
    /\ Len(completed_processes) = Len(processes)
    /\ Len(processes) >= 2
    /\ processes[1].pid # 1
    /\ processes[2].waiting_time > 0

\* C11: a second call of calculate_metrics on the list the first call sorted
\* and annotated leaves the order and every waiting_time, turnaround_time and
\* completion_time as the first call set them.
C11_SecondCallSame ==
    [][(ncalls >= 1 /\ ncalls' = ncalls + 1) => processes' = processes]_vars

C11_Witness ==
    /\ ncalls = 2
    /\ Len(processes) >= 2
    /\ processes # input0
    /\ processes[1].pid # 1
    /\ \E i, j \in Jobs :
          i < j /\ processes[i].burst_time = processes[j].burst_time

\* C12: all workers are launched up front: while threads remain to be started
\* the next start is possible whatever the running workers are doing, and no
\* join happens before every thread was started; so all N workers can be
\* asleep at the same time.
C12_LaunchedUpFront ==
    /\ (mpc = "start" /\ nstarted < Len(processes)) => ENABLED StartThread
    /\ (mpc = "join" \/ njoined >= 1) => nstarted = Len(processes)

C12_Witness ==
    /\ Len(processes) >= 2
    /\ \A w \in Jobs : wpc[w] = "l166"

\* C13: the order of completed_processes is the order in which the workers
\* took the lock for their append: every change of the list is the append of
\* its own job by the worker holding the lock. The bursts do not constrain it:
\* a job with a larger burst can be appended before one with a smaller burst.
PlaceOfPid(pid) == CHOOSE k \in Jobs : processes[k].pid = pid

AppendByLockHolder ==
    completed_processes' # completed_processes =>
        \E w \in Jobs :
            /\ lock = w
            /\ wpc[w] = "l169"
            /\ completed_processes'
                  = Append(completed_processes, processes[w].pid)

C13_LockOrderNotBurstOrder == [][AppendByLockHolder]_vars

C13_Witness ==
    \E i, j \in 1..Len(completed_processes) :
        /\ i < j
        /\ processes[PlaceOfPid(completed_processes[i])].burst_time
              > processes[PlaceOfPid(completed_processes[j])].burst_time

\* C14: for a non-empty list with positive bursts, after calculate_metrics the
\* sum of the waiting times plus the sum of the burst times is the sum of the
\* turnaround times.
C14_SumIdentity ==
    (CalcDone /\ Len(input0) >= 1 /\ PositiveBursts(input0)) =>
        SumField(processes, "waiting_time") + SumField(processes, "burst_time")
            = SumField(processes, "turnaround_time")

C14_Witness ==
    /\ mpc = "print"
    /\ Len(input0) >= 2
    /\ PositiveBursts(input0)
    /\ SumField(processes, "waiting_time") > 0
    /\ SumField(processes, "turnaround_time")
          > SumField(processes, "burst_time")

\* C15: bursts 6, 8, 7, 3 of pids 1..4 give the order 4, 1, 3, 2 with waiting
\* times 0, 3, 9, 16 and turnaround times 3, 9, 16, 24, and print_results
\* averages them to 7.00 and 13.00; the single job of burst 5 waits 0, turns
\* around in 5, and the averages are 0.00 and 5.00.
FieldSeq(s, fld) == [i \in 1..Len(s) |-> s[i][fld]]

C15_Examples ==
    /\ (input0 = FourJobs /\ CalcDone) =>
          /\ FieldSeq(processes, "pid") = <<4, 1, 3, 2>>
          /\ FieldSeq(processes, "waiting_time") = <<0, 3, 9, 16>>
          /\ FieldSeq(processes, "turnaround_time") = <<3, 9, 16, 24>>
    /\ (input0 = FourJobs /\ mpc = "ask") =>
          /\ results.avg_wait = 700
          /\ results.avg_turnaround = 1300
    /\ (input0 = SingleJob /\ CalcDone) =>
          /\ FieldSeq(processes, "waiting_time") = <<0>>
          /\ FieldSeq(processes, "turnaround_time") = <<5>>
    /\ (input0 = SingleJob /\ mpc = "ask") =>
          /\ results.avg_wait = 0
          /\ results.avg_turnaround = 500

C15_Witness ==
    /\ input0 = FourJobs
    /\ mpc = "ask"
    /\ results.n = 4

\* C18: calculate_metrics only reorders and annotates: the list keeps its
\* length and holds every input job exactly once, with its pid, burst_time and
\* arrival_time (0) as they were; the arrival times take no part in the
\* result (the same jobs with other arrival times give the same order and
\* the same derived fields).
WithArrivals(s) == [i \in 1..Len(s) |-> [s[i] EXCEPT !.arrival_time = i]]

C18_ReordersAndAnnotates ==
    CalcDone =>
        /\ Len(processes) = Len(input0)
        /\ \A i \in 1..Len(input0) :
              /\ Cardinality({k \in Jobs : processes[k].pid = input0[i].pid}) = 1
              /\ \E k \in Jobs :
                    /\ processes[k].pid = input0[i].pid
                    /\ processes[k].burst_time = input0[i].burst_time
                    /\ processes[k].arrival_time = input0[i].arrival_time
                    /\ processes[k].arrival_time = 0
        /\ \A fld \in {"pid", "burst_time", "waiting_time", "turnaround_time",
                       "completion_time"} :
              FieldSeq(Metrics(WithArrivals(input0)), fld)
                  = FieldSeq(processes, fld)

C18_Witness ==
    /\ mpc = "print"
    /\ ncalls = 1
    /\ Len(input0) >= 3
    /\ FieldSeq(processes, "pid") # FieldSeq(input0, "pid")
    /\ \E k \in Jobs : processes[k].burst_time <= 0
    /\ \E k \in Jobs : processes[k].waiting_time # 0

\* C19: completed_processes is never reset: when the k-th consecutive run of
\* run_threaded_simulation on a scheduler with N jobs returns, the list has
\* k * N entries and holds every job exactly k times (N entries only after the
\* first run); during a run it holds at least the entries of the runs before.
C19_NeverReset ==
    /\ Len(completed_processes) >= (nruns - 1) * Len(processes)
    /\ mpc = "returned" =>
          /\ Len(completed_processes) = nruns * Len(processes)
          /\ \A i \in Jobs :
                Count(completed_processes, processes[i].pid) = nruns
          /\ nruns >= 2 => Len(completed_processes) # Len(processes)

C19_Witness ==
    /\ mpc = "returned"
    /\ nruns = 2
    /\ Len(processes) = 2
    /\ Len(completed_processes) = 4

\* C16: input_processes hands over only valid jobs: the count it accepted is
\* positive, and the list, while it is built and when the scheduler gets it,
\* has pids 1..n in input order, every burst_time > 0 and every derived field
\* 0; a line that is no number or a number <= 0 is refused and the prompt stays
\* open.
WellFormed(s) ==
    \A i \in 1..Len(s) : s[i].burst_time > 0 /\ s[i] = Process(i, s[i].burst_time)

C16_InputValid ==
    /\ mpc = "input_burst" =>
          /\ nprocs >= 1
          /\ Len(processes) < nprocs
          /\ WellFormed(processes)
    /\ (mpc = "calc" \/ ncalls >= 1) =>
          /\ nprocs >= 1
          /\ Len(input0) = nprocs
          /\ WellFormed(input0)
    /\ mpc = "calc" => processes = input0
    /\ (typed # <<>> /\ (~ParseInt(typed).ok \/ ParseInt(typed).value <= 0)) =>
          mpc \in {"input_n", "input_burst"}

C16_Witness ==
    /\ mpc = "input_burst"
    /\ nprocs = 2
    /\ Len(processes) = 1
    /\ typed = <<"-", "1">>

\* C17: a KeyboardInterrupt that reached main ends in a graceful exit: the
\* next step of main prints the termination message and main returns, nothing
\* is re-raised; any other exception is reported and re-raised, and the
\* process ends with it. Nothing follows either end.
C17_InterruptGraceful ==
    [][/\ mpc = "interrupted" =>
             \/ mpc' = "interrupted"
             \/ mpc' = "exit" /\ report' = "interrupted" /\ exc' = "none"
       /\ mpc = "raised" =>
             \/ mpc' = "raised"
             \/ /\ mpc' = "crashed"
                /\ report' = "error"
                /\ exc' = exc
                /\ exc \notin {"none", "KeyboardInterrupt"}
       /\ mpc \in {"exit", "crashed"} => mpc' = mpc /\ report' = report
       /\ (exc' = "KeyboardInterrupt" /\ exc # exc') => mpc' = "interrupted"
      ]_vars

C17_Witness ==
    /\ mpc = "exit"
    /\ report = "interrupted"
    /\ exc = "none"
    /\ nstarted = Len(processes)
    /\ Len(processes) >= 2
    /\ njoined < nstarted
    /\ \E w \in Jobs : wpc[w] \notin {"new", "done"}

====
